---------------------------- MODULE Spec2Model ----------------------------
(***************************************************************************)
(* The XGBoost tutorial notebooks as a state machine.                      *)
(*                                                                         *)
(* The state is the notebook kernel: the data files the cells read, the    *)
(* variables of the kernel namespace (dataset, X, Y, ...), the cell that   *)
(* is executing with its position, and the lines the cell has printed.     *)
(* One action is one statement group of a code cell.  The library calls a  *)
(* statement makes (scikit-learn 0.17 / numpy under Python 2.7, the        *)
(* versions the notebooks import) are operators that compute what the call *)
(* computes; their names are the names used at the call site.              *)
(*                                                                         *)
(* Cell values are integers: n >= 0 stands for the value n (the number or  *)
(* its numeral as text), QMark for the text '?', NaN for numpy.nan and     *)
(* BadText for a text that is no numeral.  Fractions (accuracies, column   *)
(* means) are exact rationals [num, den].                                  *)
(***************************************************************************)
EXTENDS Integers, Sequences, FiniteSets, TLC

(***************************************************************************)
(* Bounds of the model.                                                    *)
(***************************************************************************)
\* rows of a data file
MaxRows == 3
\* feature columns of a data file: dataset[:,0:8], [:,0:4], [:,0:9] and
\* [:,0:27] in the notebooks, scaled down
NumFeatures == 2
\* largest categorical / class value in a data file
MaxValue == 2
\* length of the label sequences handed to accuracy_score
MaxLen == 3
\* rows handed to train_test_split
MaxSplitRows == 5
\* rows handed to cross validation beyond the number of folds
MaxExtraRows == 2
\* cell executions in one kernel session
MaxRuns == 2
\* folds of the cross validation: KFold(n=len(X), n_folds=10, random_state=7),
\* scaled down
n_folds == 3

(***************************************************************************)
(* Program constants.                                                      *)
(***************************************************************************)
\* test_size = 0.33, in hundredths
test_size == 33

\* the text '?' that marks a missing value in horse-colic.csv
QMark == 0 - 1
\* numpy.nan
NaN == 0 - 2
\* a text that is neither a numeral nor '?'
BadText == 0 - 3

(***************************************************************************)
(* Sequences, sets and exact fractions.                                    *)
(***************************************************************************)
Range(s) == {s[i] : i \in 1..Len(s)}

Max(a, b) == IF a < b THEN b ELSE a

Min(a, b) == IF a <= b THEN a ELSE b

RECURSIVE SumSeq(_)
SumSeq(s) == IF s = <<>> THEN 0 ELSE Head(s) + SumSeq(Tail(s))

RECURSIVE SortedSeq(_)
\* the elements of a finite set of integers in ascending order
SortedSeq(S) ==
    IF S = {} THEN <<>>
    ELSE LET m == CHOOSE x \in S : \A y \in S : x <= y
         IN  <<m>> \o SortedSeq(S \ {m})

\* position (from 1) of v in the sequence s, 0 when absent
IndexOf(s, v) ==
    IF \E i \in 1..Len(s) : s[i] = v
    THEN CHOOSE i \in 1..Len(s) : s[i] = v
    ELSE 0

\* a[idx]: the rows of a at the given positions, in the order given
Take(a, idx) == [k \in 1..Len(idx) |-> a[idx[k]]]

\* all orderings of 1..n
Orderings(n) ==
    {p \in [1..n -> 1..n] : \A i, j \in 1..n : i # j => p[i] # p[j]}

RECURSIVE GCD(_, _)
GCD(a, b) == IF b = 0 THEN a ELSE GCD(b, a % b)

\* the fraction n/d in lowest terms, d > 0
Frac(n, d) ==
    LET g == GCD(n, d)
    IN  IF g = 0 THEN [num |-> 0, den |-> 1]
        ELSE [num |-> n \div g, den |-> d \div g]

FracAdd(p, q) == Frac(p.num * q.den + q.num * p.den, p.den * q.den)

RECURSIVE FracSum(_)
FracSum(s) ==
    IF s = <<>> THEN Frac(0, 1) ELSE FracAdd(Head(s), FracSum(Tail(s)))

\* ceil(n / d) and floor(n / d) for n >= 0, d > 0
Ceil(n, d) == (n + d - 1) \div d

(***************************************************************************)
(* "%.2f" % (q * 100): the fraction q as a percentage with two decimals,   *)
(* given in hundredths of a percent.  The C formatter rounds to the        *)
(* nearest hundredth and a tie to the even one.                            *)
(***************************************************************************)
PercentNearest(q) ==
    LET n  == q.num * 10000
        lo == n \div q.den
        r  == n % q.den
    IN  IF 2 * r > q.den THEN lo + 1
        ELSE IF 2 * r < q.den THEN lo
        ELSE IF lo % 2 = 0 THEN lo ELSE lo + 1

\* "%.2f" of a percentage, in hundredths; of nan it is the text nan
Format2Percent(q) == IF q.den = 0 THEN NaN ELSE PercentNearest(q)

(***************************************************************************)
(* Array slicing and masked assignment (numpy).                            *)
(***************************************************************************)
\* dataset[:, lo-1:hi]: the columns lo..hi of every row
Columns(table, lo, hi) ==
    [r \in 1..Len(table) |-> [c \in 1..(hi - lo + 1) |-> table[r][lo + c - 1]]]

\* dataset[:, c-1]: column c as a vector
Column(table, c) == [r \in 1..Len(table) |-> table[r][c]]

NumCols(table) == IF table = <<>> THEN 0 ELSE Len(table[1])

\* (a faulty assignment: the mask covers the whole table, not the view)
MaskedAssignAll(table, lo, hi, old, new) ==
    [r \in 1..Len(table) |->
        [c \in 1..Len(table[r]) |-> IF table[r][c] = old THEN new ELSE table[r][c]]]

\* X[X == old] = new where X is the view of columns lo..hi of table: the
\* assignment writes through the view into the table that owns the data
MaskedAssign(table, lo, hi, old, new) ==
    [r \in 1..Len(table) |->
        [c \in 1..Len(table[r]) |->
            IF c >= lo /\ c <= hi /\ table[r][c] = old THEN new ELSE table[r][c]]]

(***************************************************************************)
(* sklearn.metrics.accuracy_score: the mean of the elementwise equality of *)
(* the two label vectors.                                                  *)
(***************************************************************************)
Matches(y_true, y_pred) ==
    Cardinality({i \in 1..Len(y_true) : y_true[i] = y_pred[i]})

\* (a faulty score: normalize=False, the count of matches itself)
accuracy_score_count(y_true, y_pred) ==
    Frac(Matches(y_true, y_pred), 1)

accuracy_score(y_true, y_pred) ==
    Frac(Matches(y_true, y_pred), Len(y_true))

(***************************************************************************)
(* sklearn.preprocessing.LabelEncoder: fit keeps numpy.unique(y), the      *)
(* distinct values in ascending order, as classes_; transform gives every  *)
(* value its position in classes_, counted from 0.                         *)
(***************************************************************************)
LabelEncoder_fit(y) == SortedSeq(Range(y))

\* (a faulty transform: the value itself instead of its position)
LabelEncoder_transform_by_value(classes, y) == y

LabelEncoder_transform(classes, y) ==
    [i \in 1..Len(y) |-> IndexOf(classes, y[i]) - 1]

LabelEncoder_fit_transform(y) == LabelEncoder_transform(LabelEncoder_fit(y), y)

(***************************************************************************)
(* sklearn.preprocessing.OneHotEncoder(sparse=False).fit_transform on one  *)
(* column of non-negative integers: n_values is the largest value plus 1,  *)
(* a row with value v gets a 1 in column v, and the columns no row uses    *)
(* are dropped (the encoder's active_features_).                           *)
(***************************************************************************)
OneHotActive(feature) ==
    LET n_values == (CHOOSE m \in Range(feature) : \A v \in Range(feature) : v <= m) + 1
    IN  SortedSeq({v \in 0..(n_values - 1) : v \in Range(feature)})

\* (a faulty encoder: a 1 in every column up to the value's own)
OneHotEncoder_threshold(feature) ==
    LET active == OneHotActive(feature)
    IN  [r \in 1..Len(feature) |->
            [k \in 1..Len(active) |-> IF feature[r] >= active[k] THEN 1 ELSE 0]]

OneHotEncoder_fit_transform(feature) ==
    LET active == OneHotActive(feature)
    IN  [r \in 1..Len(feature) |->
            [k \in 1..Len(active) |-> IF feature[r] = active[k] THEN 1 ELSE 0]]

(***************************************************************************)
(* sklearn.preprocessing.Imputer() (missing_values NaN, strategy mean,     *)
(* axis 0).fit_transform: the statistic of a column is the mean of its     *)
(* values that are not NaN; a column with no such value has no statistic   *)
(* and is left out of the result; in the other columns every NaN becomes   *)
(* the column's statistic.                                                 *)
(***************************************************************************)
Present(table, c) == {r \in 1..Len(table) : table[r][c] # NaN}

ColumnMean(table, c) ==
    LET rows == SortedSeq(Present(table, c))
    IN  Frac(SumSeq([k \in 1..Len(rows) |-> table[rows[k]][c]]), Len(rows))

\* (a faulty statistic: the mean over all the rows, a missing one counted as 0)
ColumnMeanOfAll(table, c) ==
    LET rows == SortedSeq(Present(table, c))
    IN  Frac(SumSeq([k \in 1..Len(rows) |-> table[rows[k]][c]]), Len(table))

Imputer_statistic(table, c) == ColumnMean(table, c)

\* the columns that keep a place in the result, ascending
Imputer_valid(table) ==
    SortedSeq({c \in 1..NumCols(table) : Present(table, c) # {}})

\* (a faulty imputer: the rows with a missing value are dropped, not filled)
Imputer_drop_rows(table) ==
    LET complete == SortedSeq({r \in 1..Len(table) :
                                 \A c \in 1..NumCols(table) : table[r][c] # NaN})
    IN  [k \in 1..Len(complete) |->
            [c \in 1..NumCols(table) |-> Frac(table[complete[k]][c], 1)]]

Imputer_fit_transform(table) ==
    LET valid == Imputer_valid(table)
    IN  [r \in 1..Len(table) |->
            [k \in 1..Len(valid) |->
                IF table[r][valid[k]] = NaN
                THEN Imputer_statistic(table, valid[k])
                ELSE Frac(table[r][valid[k]], 1)]]

(***************************************************************************)
(* sklearn.cross_validation.train_test_split(..., test_size=0.33,          *)
(* random_state=7): one ShuffleSplit iteration.  n_test is                 *)
(* ceil(test_size * n), n_train the rest; the test rows are the first      *)
(* n_test entries of the generator's permutation of the rows and the       *)
(* training rows the entries after them.  The permutation the seeded       *)
(* generator yields is an input of the model.                              *)
(***************************************************************************)
n_test(n) == Ceil(test_size * n, 100)

n_train(n) == n - n_test(n)

ShuffleSplit_test(perm) == SubSeq(perm, 1, n_test(Len(perm)))

\* (a faulty split: the training part is every row)
ShuffleSplit_train_all(perm) == perm

ShuffleSplit_train(perm) == SubSeq(perm, n_test(Len(perm)) + 1, Len(perm))

(***************************************************************************)
(* sklearn.cross_validation.KFold(n, n_folds) without shuffling: the rows  *)
(* in order are cut into n_folds consecutive test folds, the first         *)
(* n % n_folds of them one row longer than n // n_folds; the training rows *)
(* of a fold are all the others, ascending.                                *)
(***************************************************************************)
KFold_size(n, k, j) == (n \div k) + (IF j <= n % k THEN 1 ELSE 0)

KFold_start(n, k, j) == (j - 1) * (n \div k) + Min(j - 1, n % k)

\* (a faulty fold: every fold but the last runs one row into the next)
KFold_test_overlapping(n, k, j) ==
    [i \in 1..(KFold_size(n, k, j) + (IF j < k THEN 1 ELSE 0)) |-> KFold_start(n, k, j) + i]

KFold_test(n, k, j) ==
    [i \in 1..KFold_size(n, k, j) |-> KFold_start(n, k, j) + i]

KFold_train(n, k, j) == SortedSeq((1..n) \ Range(KFold_test(n, k, j)))

(***************************************************************************)
(* sklearn.cross_validation.StratifiedKFold(y, n_folds) without shuffling: *)
(* the rows of every class, in order, are cut by a KFold over              *)
(* max(count, n_folds) positions, and the positions past the class's count *)
(* are trimmed; test fold j is the rows all the classes give to fold j,    *)
(* ascending, and its training rows are all the others.                    *)
(***************************************************************************)
\* the rows whose class is label, ascending
StratifiedKFold_rows(y, label) == SortedSeq({i \in 1..Len(y) : y[i] = label})

\* the rows of class `label` that test fold j holds
StratifiedKFold_label_test(y, k, j, label) ==
    LET rows       == StratifiedKFold_rows(y, label)
        count      == Len(rows)
        test_split == KFold_test(Max(count, k), k, j)
    IN  {rows[test_split[t]] : t \in {u \in 1..Len(test_split) : test_split[u] <= count}}

\* (a faulty stratification: the folds of a plain KFold, blind to the classes)
StratifiedKFold_unstratified(y, k, j) == KFold_test(Len(y), k, j)

StratifiedKFold_test(y, k, j) ==
    SortedSeq(UNION {StratifiedKFold_label_test(y, k, j, label) : label \in Range(y)})

StratifiedKFold_train(y, k, j) ==
    SortedSeq((1..Len(y)) \ Range(StratifiedKFold_test(y, k, j)))

\* the cv objects the cells hand to cross_val_score, and their folds
KFold_new(n, k) == [kind |-> "KFold", n |-> n, n_folds |-> k, y |-> <<>>]

StratifiedKFold_new(y, k) ==
    [kind |-> "StratifiedKFold", n |-> Len(y), n_folds |-> k, y |-> y]

test_index(cv, j) ==
    IF cv.kind = "KFold" THEN KFold_test(cv.n, cv.n_folds, j)
    ELSE StratifiedKFold_test(cv.y, cv.n_folds, j)

train_index(cv, j) ==
    IF cv.kind = "KFold" THEN KFold_train(cv.n, cv.n_folds, j)
    ELSE StratifiedKFold_train(cv.y, cv.n_folds, j)

(***************************************************************************)
(* xgboost.XGBClassifier.  fit keeps the classes of the training labels    *)
(* (in ascending order) and predict answers each row with one of them.     *)
(* What fit learnt is a function of the rows and labels it was given,      *)
(* which the estimator holds as x and y.                                   *)
(* The trained trees are not modelled: the classifier is one of a few      *)
(* deterministic rules, chosen with the environment.                       *)
(***************************************************************************)
OracleKinds == {"lowest", "highest", "alternate"}

\* predict on a table of no rows, which the notebooks never try on their own
\* data: the library either raises or answers with no predictions, and the
\* accuracy of no predictions is numpy's mean of an empty array, nan
ZeroRowKinds == {"raises", "nan"}

NotANumber == [num |-> 0, den |-> 0]

IsNaN(q) == q.den = 0

XGBClassifier_new == [fitted |-> FALSE, classes |-> <<>>, n |-> 0, x |-> <<>>, y |-> <<>>]

XGBClassifier_fit(x_train, labels) ==
    [fitted |-> TRUE, classes |-> SortedSeq(Range(labels)), n |-> Len(x_train),
     x |-> x_train, y |-> labels]

XGBClassifier_predict(kind, est, rows) ==
    [k \in 1..Len(rows) |->
        CASE kind = "lowest"  -> est.classes[1]
          [] kind = "highest" -> est.classes[Len(est.classes)]
          [] OTHER            -> est.classes[((k - 1) % Len(est.classes)) + 1]]

\* round(value) of a class label, which is integral, is that label
round(value) == value

\* (a faulty mean: the sum divided by one less than the number of scores)
mean_one_less(scores) ==
    LET total == FracSum(scores)
    IN  Frac(total.num, total.den * (Len(scores) - 1))

\* results.mean() of the per-fold scores; nan if one of them is
mean(scores) ==
    IF \E r \in 1..Len(scores) : IsNaN(scores[r]) THEN NotANumber
    ELSE LET total == FracSum(scores)
         IN  Frac(total.num, total.den * Len(scores))

(***************************************************************************)
(* The kernel.                                                             *)
(***************************************************************************)
VARIABLES
    files,      \* the data files: name -> [present, rows]
    rng,        \* the permutation numpy's generator seeded with 7 gives for n rows
    oracle,     \* the rule the trained classifier follows
    zero_rows,  \* what the installed xgboost does with a table of no rows
    ns,         \* the kernel namespace: variable name -> value
    cell,       \* the code cell that is executing or was executed last
    pc,         \* the statement that runs next, or idle / done / fault
    iter,       \* completed iterations of the loop that is executing
    runs,       \* cell executions started in this session
    out,        \* the lines the current execution printed
    trace,      \* the statements the current execution completed
    split_idx,  \* train_test_split's row positions: [train, test]
    cv_log      \* cross_val_score's rounds: [train, test, score]

vars == <<files, rng, oracle, zero_rows, ns, cell, pc, iter, runs, out, trace, split_idx, cv_log>>

environment == <<files, rng, oracle, zero_rows>>

Cells == {"split", "kfold", "stratified", "iris", "onehot", "missing", "impute"}

FileNames ==
    {"pima-indians-diabetes.csv", "iris.csv", "datasets-uci-breast-cancer.csv",
     "horse-colic.csv"}

FileOf(c) ==
    CASE c \in {"split", "kfold", "stratified"} -> "pima-indians-diabetes.csv"
      [] c = "iris"               -> "iris.csv"
      [] c = "onehot"             -> "datasets-uci-breast-cancer.csv"
      [] OTHER                    -> "horse-colic.csv"

\* the statements of each code cell, in source order
Program(c) ==
    CASE c = "split"   -> <<"load", "slice", "split", "fit", "predict", "score", "print">>
      [] c \in {"kfold", "stratified"} ->
                          <<"load", "slice", "cv", "cross_val_score", "print_cv">>
      [] c = "iris"    -> <<"load", "slice", "encode_y", "split", "fit", "predict",
                            "score", "print">>
      [] c = "onehot"  -> <<"load", "slice", "onehot", "shape", "encode_y", "split",
                            "fit", "predict", "score", "print">>
      [] c = "missing" -> <<"load", "slice", "sentinel", "astype", "encode_y", "split",
                            "fit", "predict", "score", "print">>
      [] OTHER         -> <<"load", "slice", "sentinel", "astype", "impute", "encode_y",
                            "split", "fit", "predict", "score", "print">>

\* the statement after l in the statement list p, "done" after the last
Successor(p, l) ==
    LET k == IndexOf(p, l)
    IN  IF k = Len(p) THEN "done" ELSE p[k + 1]

\* (a faulty kernel: the train/test cell prints its accuracy line before the
\* statement that computes the score)
AfterPrintFirst(c, l) ==
    LET p == Program(c)
        n == Len(p)
    IN  IF c = "split"
        THEN Successor(SubSeq(p, 1, n - 2) \o <<p[n], p[n - 1]>>, l)
        ELSE Successor(p, l)

\* the statement control moves to when statement l of cell c completes
After(c, l) == Successor(Program(c), l)

\* the names a statement reads from the namespace
Reads(c, l) ==
    CASE l = "slice"    -> {"dataset"}
      [] l = "sentinel" -> {"X"}
      [] l = "astype"   -> {"X"}
      [] l = "impute"   -> {"X"}
      [] l = "onehot"   -> {"X"}
      [] l = "shape"    -> {"encoded_x"}
      [] l = "encode_y" -> {"Y"}
      [] l = "split"    ->
            CASE c = "split"  -> {"X", "Y"}
              [] c = "onehot" -> {"encoded_x", "label_encoded_y"}
              [] c = "impute" -> {"imputed_x", "label_encoded_y"}
              [] OTHER        -> {"X", "label_encoded_y"}
      [] l = "fit"      -> {"X_train", "y_train"}
      [] l = "predict"  -> {"model", "X_test"}
      [] l = "score"    -> {"y_test", "predictions"}
      [] l = "print"    -> {"accuracy"}
      [] l = "cv"       -> IF c = "stratified" THEN {"Y"} ELSE {"X"}
      [] l = "cross_val_score" -> {"model", "X", "Y", "kfold"}
      [] l = "print_cv" -> {"results"}
      [] OTHER          -> {}

\* the names statement l of cell c assigns (X[X == '?'] = ... writes through
\* the view X into dataset, of which Y is a view too)
Binds(c, l) ==
    CASE l = "load"     -> {"dataset"}
      [] l = "slice"    -> {"X", "Y"}
      [] l = "sentinel" -> {"dataset", "X", "Y"}
      [] l = "astype"   -> {"X"}
      [] l = "impute"   -> {"imputed_x"}
      [] l = "onehot"   -> {"i", "label_encoder", "feature", "encoded_x"}
      [] l = "encode_y" -> {"label_encoder", "label_encoded_y"}
      [] l = "split"    -> {"X_train", "X_test", "y_train", "y_test"}
      [] l = "fit"      -> {"model"}
      [] l = "predict"  -> {"y_pred", "predictions"}
      [] l = "score"    -> {"accuracy"}
      [] l = "cv"       -> {"model", "kfold"}
      [] l = "cross_val_score" -> {"results"}
      [] OTHER          -> {}

\* the namespace after the assignments upd (a record: name |-> value)
Assign(env, upd) ==
    [k \in (DOMAIN env) \union (DOMAIN upd) |->
        IF k \in DOMAIN upd THEN upd[k] ELSE env[k]]

EmptyNamespace == [k \in {} |-> 0]

Ragged(rows) == \E r \in 1..Len(rows) : Len(rows[r]) # Len(rows[1])

HasCell(rows, bad) ==
    \E r \in 1..Len(rows) : \E c \in 1..Len(rows[r]) : rows[r][c] \in bad

(***************************************************************************)
(* The fault the next statement raises, if any.  No cell catches one.      *)
(***************************************************************************)
Raises ==
    /\ cell \in Cells
    /\ pc \in Range(Program(cell))
    /\ \/ ~(Reads(cell, pc) \subseteq DOMAIN ns)
       \/ /\ pc = "load"
          /\ LET f == files[FileOf(cell)]
             IN  \/ ~f.present
                 \/ Ragged(f.rows)
                 \* numpy.loadtxt converts every field to a float
                 \/ /\ cell \in {"split", "kfold", "stratified"}
                    /\ HasCell(f.rows, {QMark, BadText})
       \/ /\ pc = "slice"
          /\ "dataset" \in DOMAIN ns
          /\ NumCols(ns.dataset) < NumFeatures + 1
       \/ /\ pc = "astype"
          /\ "X" \in DOMAIN ns
          /\ HasCell(ns.X, {QMark, BadText})
       \* KFold and StratifiedKFold: more folds than rows
       \/ /\ pc = "cv"
          /\ cell # "stratified"
          /\ "X" \in DOMAIN ns
          /\ n_folds > Len(ns.X)
       \/ /\ pc = "cv"
          /\ cell = "stratified"
          /\ "Y" \in DOMAIN ns
          /\ n_folds > Len(ns.Y)
       \* a training fold with no rows: the classifier learns no class, and has
       \* none to answer with
       \/ /\ pc = "cross_val_score"
          /\ "kfold" \in DOMAIN ns
          /\ train_index(ns.kfold, iter + 1) = <<>>
       \* a test fold with no rows
       \/ /\ pc = "cross_val_score"
          /\ "kfold" \in DOMAIN ns
          /\ zero_rows = "raises"
          /\ test_index(ns.kfold, iter + 1) = <<>>

Running(l) == cell \in Cells /\ pc = l /\ ~Raises

\* (a faulty kernel: the exception is swallowed and the next statement runs)
FaultCaught ==
    /\ Raises
    /\ pc' = After(cell, pc)
    /\ UNCHANGED <<files, rng, oracle, zero_rows, ns, cell, iter, runs, out, trace, split_idx, cv_log>>

\* an uncaught exception ends the execution of the cell
Fault ==
    /\ Raises
    /\ pc' = "fault"
    /\ UNCHANGED <<files, rng, oracle, zero_rows, ns, cell, iter, runs, out, trace, split_idx, cv_log>>

\* the user runs a code cell
RunCell(c) ==
    /\ pc \in {"idle", "done", "fault"}
    /\ runs < MaxRuns
    /\ cell' = c
    /\ pc' = Program(c)[1]
    /\ runs' = runs + 1
    /\ iter' = 0
    /\ out' = <<>>
    /\ trace' = <<>>
    /\ UNCHANGED <<files, rng, oracle, zero_rows, ns, split_idx, cv_log>>

\* a statement completes and control moves to the next one
Advance(l) ==
    /\ pc' = After(cell, l)
    /\ trace' = Append(trace, l)
    /\ UNCHANGED <<files, rng, oracle, zero_rows, cell, runs>>

\* (a faulty cell: the file is read only when no dataset is bound yet, so a
\* cell works on the table an earlier cell left)
LoadCached ==
    /\ Running("load")
    /\ ns' = IF "dataset" \in DOMAIN ns THEN ns
             ELSE Assign(ns, [dataset |-> files[FileOf(cell)].rows])
    /\ Advance("load")
    /\ UNCHANGED <<iter, out, split_idx, cv_log>>

\* dataset = loadtxt(...) / read_csv(...).values
Load ==
    /\ Running("load")
    /\ ns' = Assign(ns, [dataset |-> files[FileOf(cell)].rows])
    /\ Advance("load")
    /\ UNCHANGED <<iter, out, split_idx, cv_log>>

\* X = dataset[:,0:NumFeatures]; Y = dataset[:,NumFeatures]
SliceXY ==
    /\ Running("slice")
    /\ ns' = Assign(ns, [X |-> Columns(ns.dataset, 1, NumFeatures),
                         Y |-> Column(ns.dataset, NumFeatures + 1)])
    /\ Advance("slice")
    /\ UNCHANGED <<iter, out, split_idx, cv_log>>

\* X[X == '?'] = 0 (missing cell) or numpy.nan (impute cell).  X and Y are
\* views of dataset, so they show the table after the write.
SetMissing ==
    /\ Running("sentinel")
    /\ LET new   == IF cell = "missing" THEN 0 ELSE NaN
           table == MaskedAssign(ns.dataset, 1, NumFeatures, QMark, new)
       IN  ns' = Assign(ns, [dataset |-> table,
                             X |-> Columns(table, 1, NumFeatures),
                             Y |-> Column(table, NumFeatures + 1)])
    /\ Advance("sentinel")
    /\ UNCHANGED <<iter, out, split_idx, cv_log>>

\* X = X.astype('float32'): a copy in which every numeral is its value
AsType ==
    /\ Running("astype")
    /\ ns' = Assign(ns, [X |-> ns.X])
    /\ Advance("astype")
    /\ UNCHANGED <<iter, out, split_idx, cv_log>>

\* imputer = Imputer(); imputed_x = imputer.fit_transform(X)
Impute ==
    /\ Running("impute")
    /\ ns' = Assign(ns, [imputed_x |-> Imputer_fit_transform(ns.X)])
    /\ Advance("impute")
    /\ UNCHANGED <<iter, out, split_idx, cv_log>>

\* (a faulty concatenation: the new columns go in front of the old ones)
concatenate_front(a, b) == [r \in 1..Len(a) |-> b[r] \o a[r]]

\* numpy.concatenate((a, b), axis=1)
concatenate(a, b) == [r \in 1..Len(a) |-> a[r] \o b[r]]

\* one iteration of "for i in range(0, X.shape[1])"; the first one follows
\* "encoded_x = None" and takes the branch "encoded_x is None"
OneHotColumn ==
    /\ Running("onehot")
    /\ LET i       == iter
           classes == LabelEncoder_fit(Column(ns.X, i + 1))
           feature == OneHotEncoder_fit_transform(
                          LabelEncoder_transform(classes, Column(ns.X, i + 1)))
       IN  ns' = Assign(ns, [i |-> i,
                             label_encoder |-> classes,
                             feature |-> feature,
                             encoded_x |-> IF i = 0 THEN feature
                                           ELSE concatenate(ns.encoded_x, feature)])
    /\ iter' = iter + 1
    /\ IF iter + 1 < NumFeatures
       THEN /\ pc' = pc
            /\ trace' = Append(trace, "onehot")
            /\ UNCHANGED <<files, rng, oracle, zero_rows, cell, runs>>
       ELSE Advance("onehot")
    /\ UNCHANGED <<out, split_idx, cv_log>>

\* print("X shape: : ", encoded_x.shape)
PrintShape ==
    /\ Running("shape")
    /\ out' = Append(out, [kind |-> "X shape", a |-> Len(ns.encoded_x),
                           b |-> NumCols(ns.encoded_x)])
    /\ Advance("shape")
    /\ UNCHANGED <<ns, iter, split_idx, cv_log>>

\* label_encoder = LabelEncoder().fit(Y); label_encoded_y = label_encoder.transform(Y)
EncodeY ==
    /\ Running("encode_y")
    /\ LET classes == LabelEncoder_fit(ns.Y)
       IN  ns' = Assign(ns, [label_encoder |-> classes,
                             label_encoded_y |-> LabelEncoder_transform(classes, ns.Y)])
    /\ Advance("encode_y")
    /\ UNCHANGED <<iter, out, split_idx, cv_log>>

\* the arrays a cell hands to train_test_split
SplitFeatures ==
    CASE cell = "onehot" -> ns.encoded_x
      [] cell = "impute" -> ns.imputed_x
      [] OTHER           -> ns.X

\* (a faulty cell: the class column goes to the split as it was loaded)
SplitLabelsRaw == ns.Y

SplitLabels == IF cell = "split" THEN ns.Y ELSE ns.label_encoded_y

\* X_train, X_test, y_train, y_test = train_test_split(..., test_size=0.33, random_state=7)
TrainTestSplit ==
    /\ Running("split")
    /\ LET perm  == rng[Len(SplitFeatures)]
           train == ShuffleSplit_train(perm)
           test  == ShuffleSplit_test(perm)
       IN  /\ split_idx' = [train |-> train, test |-> test]
           /\ ns' = Assign(ns, [X_train |-> Take(SplitFeatures, train),
                                X_test  |-> Take(SplitFeatures, test),
                                y_train |-> Take(SplitLabels, train),
                                y_test  |-> Take(SplitLabels, test)])
    /\ Advance("split")
    /\ UNCHANGED <<iter, out, cv_log>>

\* (a faulty cell: the model is fit on the whole table, test rows included)
FitOnAll ==
    /\ Running("fit")
    /\ ns' = Assign(ns, [model |-> XGBClassifier_fit(SplitFeatures, SplitLabels)])
    /\ out' = IF cell = "split" THEN out
              ELSE Append(out, [kind |-> "XGBClassifier", a |-> 0, b |-> 0])
    /\ Advance("fit")
    /\ UNCHANGED <<iter, split_idx, cv_log>>

\* model = XGBClassifier(); model.fit(X_train, y_train); print(model)
Fit ==
    /\ Running("fit")
    /\ ns' = Assign(ns, [model |-> XGBClassifier_fit(ns.X_train, ns.y_train)])
    /\ out' = IF cell = "split" THEN out
              ELSE Append(out, [kind |-> "XGBClassifier", a |-> 0, b |-> 0])
    /\ Advance("fit")
    /\ UNCHANGED <<iter, split_idx, cv_log>>

\* y_pred = model.predict(X_test); predictions = [round(value) for value in y_pred]
Predict ==
    /\ Running("predict")
    /\ LET y_pred == XGBClassifier_predict(oracle, ns.model, ns.X_test)
       IN  ns' = Assign(ns, [y_pred |-> y_pred,
                             predictions |-> [k \in 1..Len(y_pred) |-> round(y_pred[k])]])
    /\ Advance("predict")
    /\ UNCHANGED <<iter, out, split_idx, cv_log>>

\* accuracy = accuracy_score(y_test, predictions)
Score ==
    /\ Running("score")
    /\ ns' = Assign(ns, [accuracy |-> accuracy_score(ns.y_test, ns.predictions)])
    /\ Advance("score")
    /\ UNCHANGED <<iter, out, split_idx, cv_log>>

\* print("Accuracy: %.2f%%" % (accuracy * 100.0))
PrintAccuracy ==
    /\ Running("print")
    /\ out' = Append(out, [kind |-> "Accuracy", a |-> Format2Percent(ns.accuracy), b |-> 0])
    /\ Advance("print")
    /\ UNCHANGED <<ns, iter, split_idx, cv_log>>

\* model = xgboost.XGBClassifier(); kfold = KFold(n=len(X), n_folds=10, random_state=7)
\* or kfold = StratifiedKFold(Y, n_folds=10, random_state=7)
CrossValSetup ==
    /\ Running("cv")
    /\ ns' = Assign(ns, [model |-> XGBClassifier_new,
                         kfold |-> IF cell = "stratified"
                                   THEN StratifiedKFold_new(ns.Y, n_folds)
                                   ELSE KFold_new(Len(ns.X), n_folds)])
    /\ cv_log' = <<>>
    /\ iter' = 0
    /\ Advance("cv")
    /\ UNCHANGED <<out, split_idx>>

\* one round of results = cross_val_score(model, X, Y, cv=kfold): a clone of the
\* model is fit on the training rows of the fold and scored (accuracy) on its
\* test rows; the call returns the scores after the last fold
CrossValRound ==
    /\ Running("cross_val_score")
    /\ LET j      == iter + 1
           train  == train_index(ns.kfold, j)
           test   == test_index(ns.kfold, j)
           est    == XGBClassifier_fit(Take(ns.X, train), Take(ns.Y, train))
           y_pred == XGBClassifier_predict(oracle, est, Take(ns.X, test))
           score  == IF test = <<>> THEN NotANumber
                     ELSE accuracy_score(Take(ns.Y, test), y_pred)
           log    == Append(cv_log, [train |-> train, test |-> test, score |-> score])
       IN  /\ cv_log' = log
           /\ iter' = j
           /\ IF j < ns.kfold.n_folds
              THEN /\ ns' = ns
                   /\ pc' = pc
                   /\ trace' = Append(trace, "cross_val_score")
                   /\ UNCHANGED <<files, rng, oracle, zero_rows, cell, runs>>
              ELSE /\ ns' = Assign(ns, [results |-> [r \in 1..Len(log) |-> log[r].score]])
                   /\ Advance("cross_val_score")
    /\ UNCHANGED <<out, split_idx>>

\* print("Accuracy: %.2f%% (%.2f%%)" % (results.mean()*100, results.std()*100));
\* of the line's two figures the mean is modelled
PrintCV ==
    /\ Running("print_cv")
    /\ out' = Append(out, [kind |-> "Accuracy", a |-> Format2Percent(mean(ns.results)), b |-> 0])
    /\ Advance("print_cv")
    /\ UNCHANGED <<ns, iter, split_idx, cv_log>>

(***************************************************************************)
(* The preparation of a train/test cell as one function of the rows of its *)
(* file: the statements between the load and the split, composed.          *)
(***************************************************************************)
\* the one-hot blocks of the feature columns 1..i side by side
RECURSIVE OneHotBlocks(_, _)
OneHotBlocks(X, i) ==
    LET block == OneHotEncoder_fit_transform(LabelEncoder_fit_transform(Column(X, i)))
    IN  IF i = 1 THEN block ELSE concatenate(OneHotBlocks(X, i - 1), block)

\* the feature table cell c hands to train_test_split when its file holds rows
PreparedFeatures(c, rows) ==
    LET X == Columns(rows, 1, NumFeatures)
    IN  CASE c = "onehot"  -> OneHotBlocks(X, NumFeatures)
          [] c = "missing" -> Columns(MaskedAssign(rows, 1, NumFeatures, QMark, 0),
                                      1, NumFeatures)
          [] c = "impute"  -> Imputer_fit_transform(
                                  Columns(MaskedAssign(rows, 1, NumFeatures, QMark, NaN),
                                          1, NumFeatures))
          [] OTHER         -> X

\* the labels cell c hands to train_test_split when its file holds rows
PreparedLabels(c, rows) ==
    LET Y == Column(rows, NumFeatures + 1)
    IN  IF c = "split" THEN Y ELSE LabelEncoder_fit_transform(Y)

(***************************************************************************)
(* A cell run in a fresh kernel, as one function of the environment: the   *)
(* statement that fails (if one does), the statements completed and the    *)
(* lines printed.                                                          *)
(***************************************************************************)
\* the score of round j of cross_val_score over X and Y
FoldScore(cv, X, Y, j) ==
    LET train  == train_index(cv, j)
        test   == test_index(cv, j)
        est    == XGBClassifier_fit(Take(X, train), Take(Y, train))
        y_pred == XGBClassifier_predict(oracle, est, Take(X, test))
    IN  IF test = <<>> THEN NotANumber ELSE accuracy_score(Take(Y, test), y_pred)

\* the cv object of a cross-validation cell over the rows of its file
FreshCV(c, rows) ==
    IF c = "stratified"
    THEN StratifiedKFold_new(Column(rows, NumFeatures + 1), n_folds)
    ELSE KFold_new(Len(rows), n_folds)

\* the rounds of cross_val_score that fail
FailingRounds(cv) ==
    {j \in 1..cv.n_folds :
        \/ train_index(cv, j) = <<>>
        \/ zero_rows = "raises" /\ test_index(cv, j) = <<>>}

\* the statement of cell c that fails in a fresh kernel, "none" if none does
FreshFault(c) ==
    LET f    == files[FileOf(c)]
        rows == f.rows
    IN  IF \/ ~f.present
           \/ Ragged(rows)
           \/ c \in {"split", "kfold", "stratified"} /\ HasCell(rows, {QMark, BadText})
        THEN "load"
        ELSE IF NumCols(rows) < NumFeatures + 1 THEN "slice"
        ELSE IF c \in {"missing", "impute"}
                /\ HasCell(Columns(rows, 1, NumFeatures), {BadText})
        THEN "astype"
        ELSE IF c \in {"kfold", "stratified"} /\ n_folds > Len(rows) THEN "cv"
        ELSE IF c \in {"kfold", "stratified"} /\ FailingRounds(FreshCV(c, rows)) # {}
        THEN "cross_val_score"
        ELSE "none"

RECURSIVE Repeat(_, _)
Repeat(l, k) == IF k = 0 THEN <<>> ELSE <<l>> \o Repeat(l, k - 1)

\* the statements p with every loop unrolled
RECURSIVE Unrolled(_)
Unrolled(p) ==
    IF p = <<>> THEN <<>>
    ELSE (CASE Head(p) = "onehot"          -> Repeat("onehot", NumFeatures)
            [] Head(p) = "cross_val_score" -> Repeat("cross_val_score", n_folds)
            [] OTHER                       -> <<Head(p)>>) \o Unrolled(Tail(p))

\* the statements cell c completes in a fresh kernel
FreshTrace(c) ==
    LET l == FreshFault(c)
        p == Program(c)
    IN  IF l = "none" THEN Unrolled(p)
        ELSE Unrolled(SubSeq(p, 1, IndexOf(p, l) - 1))
             \o (IF l = "cross_val_score"
                 THEN Repeat(l, SortedSeq(FailingRounds(FreshCV(c, files[FileOf(c)].rows)))[1] - 1)
                 ELSE <<>>)

\* the lines cell c prints in a fresh kernel
FreshOut(c) ==
    LET rows == files[FileOf(c)].rows
    IN  IF FreshFault(c) # "none" THEN <<>>
        ELSE IF c \in {"kfold", "stratified"}
        THEN LET X  == Columns(rows, 1, NumFeatures)
                 Y  == Column(rows, NumFeatures + 1)
                 cv == FreshCV(c, rows)
                 results == [j \in 1..n_folds |-> FoldScore(cv, X, Y, j)]
             IN  <<[kind |-> "Accuracy", a |-> Format2Percent(mean(results)), b |-> 0]>>
        ELSE LET X      == PreparedFeatures(c, rows)
                 Y      == PreparedLabels(c, rows)
                 perm   == rng[Len(X)]
                 train  == ShuffleSplit_train(perm)
                 test   == ShuffleSplit_test(perm)
                 est    == XGBClassifier_fit(Take(X, train), Take(Y, train))
                 y_pred == XGBClassifier_predict(oracle, est, Take(X, test))
                 accuracy == accuracy_score(Take(Y, test), y_pred)
             IN  (IF c = "onehot"
                  THEN <<[kind |-> "X shape", a |-> Len(X), b |-> NumCols(X)]>> ELSE <<>>)
                 \o (IF c = "split" THEN <<>>
                     ELSE <<[kind |-> "XGBClassifier", a |-> 0, b |-> 0]>>)
                 \o <<[kind |-> "Accuracy", a |-> Format2Percent(accuracy), b |-> 0]>>

(***************************************************************************)
(* The snippet "encode string input values as integers" of the notebook's  *)
(* text.  It is not a code cell: a reader runs it on a table X that is     *)
(* already bound.                                                          *)
(***************************************************************************)
\* the elements of a two-dimensional array in C (row-major) order
ravel(a) == [k \in 1..(Len(a) * NumCols(a)) |->
                a[((k - 1) \div NumCols(a)) + 1][((k - 1) % NumCols(a)) + 1]]

\* a.reshape(rows, cols): the same elements in the same C order
reshape(a, rows, cols) ==
    [r \in 1..rows |-> [c \in 1..cols |-> ravel(a)[(r - 1) * cols + c]]]

\* one iteration of "for i in range(0, X.shape[1])":
\* feature = LabelEncoder().fit_transform(X[:,i]); features.append(feature)
AppendFeature ==
    /\ cell = "doc"
    /\ pc = "features"
    /\ LET feature == LabelEncoder_fit_transform(Column(ns.X, iter + 1))
       IN  ns' = Assign(ns, [i |-> iter,
                             feature |-> feature,
                             features |-> IF iter = 0 THEN <<feature>>
                                          ELSE Append(ns.features, feature)])
    /\ iter' = iter + 1
    /\ pc' = IF iter + 1 < NumCols(ns.X) THEN "features" ELSE "reshape"
    /\ trace' = Append(trace, "features")
    /\ UNCHANGED <<files, rng, oracle, zero_rows, cell, runs, out, split_idx, cv_log>>

\* encoded_x = numpy.array(features)
\* encoded_x = encoded_x.reshape(X.shape[0], X.shape[1])
ArrayReshape ==
    /\ cell = "doc"
    /\ pc = "reshape"
    /\ ns' = Assign(ns, [encoded_x |-> reshape(ns.features, Len(ns.X), NumCols(ns.X))])
    /\ pc' = "done"
    /\ trace' = Append(trace, "reshape")
    /\ UNCHANGED <<files, rng, oracle, zero_rows, cell, iter, runs, out, split_idx, cv_log>>

(***************************************************************************)
(* Data files and initial states.                                          *)
(***************************************************************************)
File(rows) == [present |-> TRUE, rows |-> rows]

Absent == [present |-> FALSE, rows |-> <<>>]

\* only the file `name` exists
OnlyFile(name, file) == [f \in FileNames |-> IF f = name THEN file ELSE Absent]

Vectors(n, S) == [1..n -> S]

\* the vector v rotated by k places
Rot(v, k) == [r \in 1..Len(v) |-> v[((r + k - 1) % Len(v)) + 1]]

\* a table whose first feature column is u, whose other feature columns are w
\* rotated, and whose class column is y
TableOf(u, w, y) ==
    [r \in 1..Len(u) |->
        [c \in 1..(NumFeatures + 1) |->
            IF c = 1 THEN u[r]
            ELSE IF c <= NumFeatures THEN Rot(w, c - 2)[r]
            ELSE y[r]]]

\* a table of n rows of numbers with two classes
PlainTable(n) ==
    TableOf([r \in 1..n |-> r % (MaxValue + 1)], [r \in 1..n |-> (r + 1) % (MaxValue + 1)],
            [r \in 1..n |-> r % 2])

\* a table of n rows in which every third feature value is the text `missing`
MarkedTable(n, missing) ==
    TableOf([r \in 1..n |-> IF r % 3 = 1 THEN missing ELSE r % (MaxValue + 1)],
            [r \in 1..n |-> IF r % 3 = 2 THEN missing ELSE 1],
            [r \in 1..n |-> 1 + (r % 2)])

Identity(n) == [i \in 1..n |-> i]

Reversed(n) == [i \in 1..n |-> n + 1 - i]

FreshKernel ==
    /\ ns = EmptyNamespace
    /\ cell = "none"
    /\ pc = "idle"
    /\ iter = 0
    /\ runs = 0
    /\ out = <<>>
    /\ trace = <<>>
    /\ split_idx = [train |-> <<>>, test |-> <<>>]
    /\ cv_log = <<>>

\* the notebooks' session: a fresh kernel and one of a few sets of data files
NotebookFiles ==
    {[f \in FileNames |->
        CASE f = "pima-indians-diabetes.csv"      -> pima
          [] f = "iris.csv"                       -> iris
          [] f = "datasets-uci-breast-cancer.csv" -> File(PlainTable(MaxRows))
          [] OTHER                                -> horse] :
        pima  \in {Absent, File(PlainTable(n_folds - 1)), File(PlainTable(n_folds + 1))},
        iris  \in {File(TableOf(Identity(MaxRows), Reversed(MaxRows), Identity(MaxRows))),
                   File(<<Identity(NumFeatures + 1), <<1>>>>)},
        horse \in {File(MarkedTable(MaxRows, QMark)), File(MarkedTable(MaxRows, BadText))}}

Init ==
    /\ files \in NotebookFiles
    /\ rng \in {[n \in 1..(MaxRows + n_folds + 1) |-> Reversed(n)],
                [n \in 1..(MaxRows + n_folds + 1) |-> Rot(Identity(n), 1)]}
    /\ oracle \in OracleKinds
    /\ zero_rows \in ZeroRowKinds
    /\ FreshKernel

Next ==
    \/ \E c \in Cells : RunCell(c)
    \/ Load
    \/ SliceXY
    \/ SetMissing
    \/ AsType
    \/ Impute
    \/ OneHotColumn
    \/ PrintShape
    \/ EncodeY
    \/ TrainTestSplit
    \/ Fit
    \/ Predict
    \/ Score
    \/ PrintAccuracy
    \/ CrossValSetup
    \/ CrossValRound
    \/ PrintCV
    \/ Fault

Spec == Init /\ [][Next]_vars

(***************************************************************************)
(* accuracy_score and the accuracy line: the kernel at the statement       *)
(* "accuracy = accuracy_score(y_test, predictions)" of a train/test cell,  *)
(* with any two label vectors of one length.  Only the names the remaining *)
(* statements read are bound.                                              *)
(***************************************************************************)
InitAccuracy ==
    /\ files = [f \in FileNames |-> Absent]
    /\ rng = <<>>
    /\ oracle = "lowest"
    /\ zero_rows = "raises"
    /\ cell \in {"split", "iris"}
    /\ pc = "score"
    /\ \E n \in 1..MaxLen :
          \E yt \in Vectors(n, 0..MaxValue), yp \in Vectors(n, 0..MaxValue) :
             ns = [y_test |-> yt, predictions |-> yp]
    /\ iter = 0
    /\ runs = 1
    /\ out = IF cell = "split" THEN <<>> ELSE <<[kind |-> "XGBClassifier", a |-> 0, b |-> 0]>>
    /\ trace = SubSeq(Program(cell), 1, IndexOf(Program(cell), "score") - 1)
    /\ split_idx = [train |-> <<>>, test |-> <<>>]
    /\ cv_log = <<>>

NextAccuracy == Score \/ PrintAccuracy

SpecAccuracy == InitAccuracy /\ [][NextAccuracy]_vars

(***************************************************************************)
(* train_test_split: the train/test cell on a file of 2..MaxSplitRows rows *)
(* with every permutation the generator could give.                        *)
(***************************************************************************)
InitSplit ==
    /\ \E n \in 2..MaxSplitRows :
          /\ files = OnlyFile("pima-indians-diabetes.csv", File(PlainTable(n)))
          /\ \E p \in Orderings(n) : rng = [m \in {n} |-> p]
    /\ oracle \in OracleKinds
    /\ zero_rows = "raises"
    /\ FreshKernel

NextSplit ==
    \/ RunCell("split")
    \/ Load
    \/ SliceXY
    \/ TrainTestSplit
    \/ Fit
    \/ Predict
    \/ Score
    \/ PrintAccuracy

SpecSplit == InitSplit /\ [][NextSplit]_vars

(***************************************************************************)
(* k-fold cross validation: the k-fold cell on a file of n_folds - 1 ..    *)
(* n_folds + MaxExtraRows rows with every assignment of two classes.       *)
(***************************************************************************)
InitKFold ==
    /\ \E n \in (n_folds - 1)..(n_folds + MaxExtraRows) :
          /\ \E y \in Vectors(n, {0, 1}) :
                files = OnlyFile("pima-indians-diabetes.csv",
                                 File(TableOf(Identity(n), Reversed(n), y)))
          /\ rng = [m \in {n} |-> Identity(n)]
    /\ oracle \in OracleKinds
    /\ zero_rows = "raises"
    /\ FreshKernel

NextKFold ==
    \/ RunCell("kfold")
    \/ Load
    \/ SliceXY
    \/ CrossValSetup
    \/ CrossValRound
    \/ PrintCV
    \/ Fault

SpecKFold == InitKFold /\ [][NextKFold]_vars

(***************************************************************************)
(* Stratified k-fold cross validation: the stratified cell on a file of    *)
(* n_folds - 1 .. n_folds + 2 rows with every assignment of three classes, *)
(* and both behaviours of a test fold with no rows.                        *)
(***************************************************************************)
InitStratified ==
    /\ \E n \in (n_folds - 1)..(n_folds + 2) :
          /\ \E y \in Vectors(n, {0, 1, 2}) :
                files = OnlyFile("pima-indians-diabetes.csv",
                                 File(TableOf(Identity(n), Reversed(n), y)))
          /\ rng = [m \in {n} |-> Identity(n)]
    /\ oracle = "lowest"
    /\ zero_rows \in ZeroRowKinds
    /\ FreshKernel

NextStratified ==
    \/ RunCell("stratified")
    \/ Load
    \/ SliceXY
    \/ CrossValSetup
    \/ CrossValRound
    \/ PrintCV
    \/ Fault

SpecStratified == InitStratified /\ [][NextStratified]_vars

(***************************************************************************)
(* Label and one-hot encoding: the breast-cancer cell and the iris cell up *)
(* to the encoding of the class column, on files of 2..MaxRows rows with   *)
(* every choice of categorical values 0..MaxValue.                         *)
(***************************************************************************)
InitEncode ==
    /\ \E n \in 2..MaxRows :
          /\ \E u \in Vectors(n, 0..MaxValue), y \in Vectors(n, 0..MaxValue) :
                files = [f \in FileNames |->
                            IF f \in {"datasets-uci-breast-cancer.csv", "iris.csv"}
                            THEN File(TableOf(u, Rot(u, 1), y)) ELSE Absent]
          /\ rng = [m \in {n} |-> Identity(n)]
    /\ oracle = "lowest"
    /\ zero_rows = "raises"
    /\ FreshKernel

NextEncode ==
    \/ RunCell("onehot")
    \/ RunCell("iris")
    \/ Load
    \/ SliceXY
    \/ OneHotColumn
    \/ PrintShape
    \/ EncodeY

SpecEncode == InitEncode /\ [][NextEncode]_vars

(***************************************************************************)
(* The breast-cancer cell, whole, on files of 2..MaxRows rows whose first  *)
(* feature takes every choice of values 0..MaxValue and whose other        *)
(* features every choice of two values, so that the one-hot blocks differ  *)
(* in width.  The cell may run again over the names it left bound.         *)
(***************************************************************************)
InitOneHot ==
    /\ \E n \in 2..MaxRows :
          /\ \E u \in Vectors(n, 0..MaxValue), w \in Vectors(n, {0, 1}) :
                files = OnlyFile("datasets-uci-breast-cancer.csv",
                                 File(TableOf(u, w, [r \in 1..n |-> r % 2])))
          /\ rng = [m \in {n} |-> Identity(n)]
    /\ oracle = "lowest"
    /\ zero_rows = "raises"
    /\ FreshKernel

NextOneHot ==
    \/ RunCell("onehot")
    \/ Load
    \/ SliceXY
    \/ OneHotColumn
    \/ PrintShape
    \/ EncodeY
    \/ TrainTestSplit
    \/ Fit
    \/ Predict
    \/ Score
    \/ PrintAccuracy

SpecOneHot == InitOneHot /\ [][NextOneHot]_vars

(***************************************************************************)
(* Label-encoded classes through the split: the iris cell and the          *)
(* breast-cancer cell on files of 2..MaxRows rows with every assignment of *)
(* classes 0..MaxValue and every permutation the generator could give.     *)
(***************************************************************************)
InitLabels ==
    /\ \E n \in 2..MaxRows :
          /\ \E y \in Vectors(n, 0..MaxValue) :
                files = [f \in FileNames |->
                            IF f \in {"datasets-uci-breast-cancer.csv", "iris.csv"}
                            THEN File(TableOf(Identity(n), Reversed(n), y)) ELSE Absent]
          /\ \E p \in Orderings(n) : rng = [m \in {n} |-> p]
    /\ oracle = "lowest"
    /\ zero_rows = "raises"
    /\ FreshKernel

NextLabels ==
    \/ RunCell("iris")
    \/ RunCell("onehot")
    \/ Load
    \/ SliceXY
    \/ OneHotColumn
    \/ PrintShape
    \/ EncodeY
    \/ TrainTestSplit
    \/ Fit
    \/ Predict
    \/ Score
    \/ PrintAccuracy

SpecLabels == InitLabels /\ [][NextLabels]_vars

(***************************************************************************)
(* Data preparation through the split: the mean-imputation cell and the    *)
(* breast-cancer cell up to train_test_split, on files of 2..MaxRows rows  *)
(* whose first feature is '?' or 1..MaxValue and whose other features are  *)
(* '?' or 1, with two permutations that move every row.                    *)
(***************************************************************************)
InitPrepare ==
    /\ \E n \in 2..MaxRows :
          /\ \E u \in Vectors(n, {QMark} \union (1..MaxValue)), w \in Vectors(n, {QMark, 1}) :
                files = [f \in FileNames |->
                            IF f \in {"datasets-uci-breast-cancer.csv", "horse-colic.csv"}
                            THEN File(TableOf(u, w, [r \in 1..n |-> 1 + (r % 2)]))
                            ELSE Absent]
          /\ rng \in {[m \in {n} |-> Reversed(n)], [m \in {n} |-> Rot(Identity(n), 1)]}
    /\ oracle = "lowest"
    /\ zero_rows = "raises"
    /\ FreshKernel

NextPrepare ==
    \/ RunCell("impute")
    \/ RunCell("onehot")
    \/ Load
    \/ SliceXY
    \/ SetMissing
    \/ AsType
    \/ Impute
    \/ OneHotColumn
    \/ PrintShape
    \/ EncodeY
    \/ TrainTestSplit

SpecPrepare == InitPrepare /\ [][NextPrepare]_vars

(***************************************************************************)
(* The text's snippet that label-encodes the features, on every table of   *)
(* 2..MaxRows rows of categorical values 0..MaxValue.                      *)
(***************************************************************************)
InitSnippet ==
    /\ files = [f \in FileNames |-> Absent]
    /\ rng = <<>>
    /\ oracle = "lowest"
    /\ zero_rows = "raises"
    /\ cell = "doc"
    /\ pc = "features"
    /\ \E n \in 2..MaxRows :
          \E u \in Vectors(n, 0..MaxValue), w \in Vectors(n, 0..MaxValue) :
             ns = [X |-> Columns(TableOf(u, w, u), 1, NumFeatures)]
    /\ iter = 0
    /\ runs = 1
    /\ out = <<>>
    /\ trace = <<>>
    /\ split_idx = [train |-> <<>>, test |-> <<>>]
    /\ cv_log = <<>>

NextSnippet == AppendFeature \/ ArrayReshape

SpecSnippet == InitSnippet /\ [][NextSnippet]_vars

(***************************************************************************)
(* Missing values: the two horse-colic cells up to the end of the data     *)
(* preparation, on files of 2..MaxRows rows whose feature values are '?'   *)
(* or 1..MaxValue.                                                         *)
(***************************************************************************)
InitMissing ==
    /\ \E n \in 2..MaxRows :
          /\ \E u \in Vectors(n, {QMark} \union (1..MaxValue)),
                w \in Vectors(n, {QMark} \union (1..MaxValue)) :
                files = OnlyFile("horse-colic.csv",
                                 File(TableOf(u, w, [r \in 1..n |-> IF r % 3 = 0 THEN QMark
                                                                     ELSE r % 3])))
          /\ rng = [m \in {n} |-> Identity(n)]
    /\ oracle = "lowest"
    /\ zero_rows = "raises"
    /\ FreshKernel

NextMissing ==
    \/ RunCell("missing")
    \/ RunCell("impute")
    \/ Load
    \/ SliceXY
    \/ SetMissing
    \/ AsType
    \/ Impute

SpecMissing == InitMissing /\ [][NextMissing]_vars

(***************************************************************************)
(* Properties.                                                             *)
(***************************************************************************)
CountIn(s, l) == Cardinality({i \in 1..Len(s) : s[i] = l})

Done(l) == l \in Range(trace)

Abs(x) == IF x < 0 THEN 0 - x ELSE x

\* a hundredths of a percent is the two-decimal figure nearest to 100 * num / den
NearestHundredth(a, num, den) == 2 * Abs(a * den - 10000 * num) <= den

LastLine == out[Len(out)]

RECURSIVE CountEqual(_, _)
CountEqual(s, t) ==
    IF s = <<>> THEN 0
    ELSE (IF Head(s) = Head(t) THEN 1 ELSE 0) + CountEqual(Tail(s), Tail(t))

\* C1: in a train/test cell the accuracy is the number of positions where
\* predictions and y_test agree divided by the number of predictions, and the
\* printed figure is that fraction times 100 (shown with the two decimals of
\* the format "%.2f").
C1_AccuracyIsMatchFraction ==
    (cell \in {"split", "iris"} /\ Done("score")) =>
        /\ ns.accuracy.num * Len(ns.predictions)
              = CountEqual(ns.predictions, ns.y_test) * ns.accuracy.den
        /\ Done("print") =>
              /\ LastLine.kind = "Accuracy"
              /\ NearestHundredth(LastLine.a, CountEqual(ns.predictions, ns.y_test),
                                  Len(ns.predictions))

\* one of three predictions is right and the cell printed 33.33
C1_Witness ==
    /\ cell \in {"split", "iris"}
    /\ pc = "done"
    /\ Len(ns.predictions) = 3
    /\ CountEqual(ns.predictions, ns.y_test) = 1
    /\ LastLine.a = 3333

SetOf(s) == Range(s)

NoRepeat(s) == Cardinality(Range(s)) = Len(s)

\* C2: k-fold cross validation over the n rows runs exactly k rounds whose test
\* folds are pairwise disjoint and together are all n rows; round j trains on
\* exactly the rows of the other folds, so every row is tested in exactly one
\* round.
C2_KFoldPartitions ==
    (cell = "kfold" /\ Done("cv")) =>
        LET n == Len(ns.X)
        IN  /\ Len(cv_log) <= n_folds
            /\ pc \in {"print_cv", "done"} => Len(cv_log) = n_folds
            /\ \A j \in 1..Len(cv_log) :
                  /\ NoRepeat(cv_log[j].test) /\ NoRepeat(cv_log[j].train)
                  /\ SetOf(cv_log[j].test) # {}
                  /\ SetOf(cv_log[j].train) = (1..n) \ SetOf(cv_log[j].test)
            /\ \A i, j \in 1..Len(cv_log) :
                  i # j => SetOf(cv_log[i].test) \cap SetOf(cv_log[j].test) = {}
            /\ Len(cv_log) = n_folds =>
                  /\ \A r \in 1..n :
                        Cardinality({j \in 1..n_folds : r \in SetOf(cv_log[j].test)}) = 1
                  /\ \A j \in 1..n_folds :
                        SetOf(cv_log[j].train)
                           = UNION {SetOf(cv_log[i].test) : i \in (1..n_folds) \ {j}}

\* all the rounds ran over a table whose folds differ in size
C2_Witness ==
    /\ cell = "kfold"
    /\ pc = "done"
    /\ Len(cv_log) = n_folds
    /\ Len(ns.X) = n_folds + 1
    /\ Len(cv_log[1].test) = 2

RECURSIVE ProdDen(_)
ProdDen(scores) == IF scores = <<>> THEN 1 ELSE Head(scores).den * ProdDen(Tail(scores))

\* the sum of the scores over the denominator d, a multiple of every score's
SumOver(scores, d) == SumSeq([j \in 1..Len(scores) |-> scores[j].num * (d \div scores[j].den)])

\* C3: cross_val_score returns exactly k scores, the score of round j at place
\* j, and the accuracy the cross-validation cell prints is their arithmetic
\* mean, the sum of the k scores divided by k (as a percentage with the two
\* decimals of the format).
C3_MeanOfFoldScores ==
    (cell = "kfold" /\ Done("cross_val_score") /\ pc \in {"print_cv", "done"}) =>
        /\ Len(ns.results) = n_folds
        /\ \A j \in 1..n_folds :
              /\ ns.results[j] = cv_log[j].score
              /\ ns.results[j].num * Len(cv_log[j].test)
                    = ns.results[j].den
                      * Cardinality({t \in 1..Len(cv_log[j].test) :
                            XGBClassifier_predict(oracle,
                                XGBClassifier_fit(Take(ns.X, cv_log[j].train),
                                                  Take(ns.Y, cv_log[j].train)),
                                Take(ns.X, cv_log[j].test))[t]
                            = ns.Y[cv_log[j].test[t]]})
        /\ pc = "done" =>
              /\ LastLine.kind = "Accuracy"
              /\ LET d == ProdDen(ns.results)
                 IN  NearestHundredth(LastLine.a, SumOver(ns.results, d), d * n_folds)

\* the folds scored differently and the cell printed their mean
C3_Witness ==
    /\ cell = "kfold"
    /\ pc = "done"
    /\ \E i, j \in 1..Len(ns.results) : ns.results[i] # ns.results[j]
    /\ LET d == ProdDen(ns.results)
       IN  /\ 0 < SumOver(ns.results, d)
           /\ (10000 * SumOver(ns.results, d)) % (d * n_folds) # 0

\* C4: one-hot encoding a feature column with n distinct values gives every
\* row a vector of n entries, each 0 or 1, exactly one of them 1, and two rows
\* get the same vector exactly when they hold the same value.
C4_OneHotVectors ==
    (cell = "onehot" /\ Done("onehot")) =>
        LET col == Column(ns.X, ns.i + 1)
            n   == Cardinality(Range(col))
        IN  /\ Len(ns.feature) = Len(col)
            /\ \A r \in 1..Len(col) :
                  /\ Len(ns.feature[r]) = n
                  /\ \A k \in 1..n : ns.feature[r][k] \in {0, 1}
                  /\ Cardinality({k \in 1..n : ns.feature[r][k] = 1}) = 1
            /\ \A r, q \in 1..Len(col) :
                  (ns.feature[r] = ns.feature[q]) <=> (col[r] = col[q])

\* a column in which two rows share a value and a third row differs
C4_Witness ==
    /\ cell = "onehot"
    /\ Done("onehot")
    /\ LET col == Column(ns.X, ns.i + 1)
       IN  /\ \E r, q \in 1..Len(col) : r # q /\ col[r] = col[q]
           /\ \E r, q \in 1..Len(col) : col[r] # col[q]
           /\ \E r \in 1..Len(col) : ns.feature[r] = <<0, 1>>

\* C5: label encoding the class column Y maps its n distinct values one-to-one
\* onto 0..n-1: equal values get equal integers, different values different
\* integers, every output is in 0..n-1 (three classes become 0, 1, 2; the
\* classes 1 and 2 become 0 and 1).
C5_LabelEncoding ==
    (cell \in {"onehot", "iris"} /\ Done("encode_y")) =>
        LET n == Cardinality(Range(ns.Y))
        IN  /\ Len(ns.label_encoded_y) = Len(ns.Y)
            /\ \A r \in 1..Len(ns.Y) : ns.label_encoded_y[r] \in 0..(n - 1)
            /\ \A r, q \in 1..Len(ns.Y) :
                  (ns.label_encoded_y[r] = ns.label_encoded_y[q]) <=> (ns.Y[r] = ns.Y[q])
            /\ Range(ns.label_encoded_y) = 0..(n - 1)
            /\ Range(ns.Y) = {1, 2} =>
                  \A r \in 1..Len(ns.Y) : ns.label_encoded_y[r] = ns.Y[r] - 1

\* the class column holds the classes 1 and 2
C5_Witness ==
    /\ cell \in {"onehot", "iris"}
    /\ Done("encode_y")
    /\ Range(ns.Y) = {1, 2}
    /\ Range(ns.label_encoded_y) = {0, 1}

\* the table as it is in the file of the executing cell
Loaded == files[FileOf(cell)].rows

\* C6: in the missing-data cell, after X[X == '?'] = 0 every feature cell that
\* held '?' holds 0, no '?' is left in X, every other feature cell is as it
\* was, and the class column Y is as it was.
C6_SentinelToZero ==
    (cell = "missing" /\ Done("sentinel")) =>
        /\ Len(ns.X) = Len(Loaded)
        /\ \A r \in 1..Len(Loaded) :
              /\ Len(ns.X[r]) = NumFeatures
              /\ \A c \in 1..NumFeatures :
                    /\ Loaded[r][c] = QMark => ns.X[r][c] = 0
                    /\ Loaded[r][c] # QMark => ns.X[r][c] = Loaded[r][c]
                    /\ ns.X[r][c] # QMark
        /\ ns.Y = [r \in 1..Len(Loaded) |-> Loaded[r][NumFeatures + 1]]

\* the file has '?' among the features and in the class column
C6_Witness ==
    /\ cell = "missing"
    /\ pc = "astype"
    /\ \E r \in 1..Len(Loaded) : Loaded[r][1] = QMark /\ ns.X[r][1] = 0
    /\ \E r \in 1..Len(Loaded) : ns.Y[r] = QMark

\* the rows of the file with a value in column c, and the sum of those values
Known(c) == {r \in 1..Len(Loaded) : Loaded[r][c] # QMark}

RECURSIVE SumKnown(_, _)
SumKnown(c, r) ==
    IF r = 0 THEN 0
    ELSE (IF Loaded[r][c] # QMark THEN Loaded[r][c] ELSE 0) + SumKnown(c, r - 1)

\* the cell at row r, place k of imputed_x is what imputation makes of
\* column c of the file
ImputedFrom(r, k, c) ==
    /\ k <= Len(ns.imputed_x[r])
    /\ Loaded[r][c] # QMark =>
          ns.imputed_x[r][k].num = Loaded[r][c] * ns.imputed_x[r][k].den
    /\ Loaded[r][c] = QMark =>
          ns.imputed_x[r][k].num * Cardinality(Known(c))
             = SumKnown(c, Len(Loaded)) * ns.imputed_x[r][k].den

\* C7 as stated: in the mean-imputation cell every feature cell that held '?'
\* ends up holding the mean of the non-missing values of its own column, and
\* every non-missing cell is unchanged.
C7_Original ==
    (cell = "impute" /\ Done("impute")) =>
        \A r \in 1..Len(Loaded) : \A c \in 1..NumFeatures : ImputedFrom(r, c, c)

\* C7, amended: a feature column with at least one non-missing value keeps its
\* place among such columns; in it every cell that held '?' holds the mean of
\* the column's non-missing values and every other cell is unchanged.  A column
\* in which every cell held '?' has no column in imputed_x.
C7_MeanImputation ==
    (cell = "impute" /\ Done("impute")) =>
        LET kept == {c \in 1..NumFeatures : Known(c) # {}}
        IN  /\ Len(ns.imputed_x) = Len(Loaded)
            /\ \A r \in 1..Len(Loaded) :
                  /\ Len(ns.imputed_x[r]) = Cardinality(kept)
                  /\ \A c \in kept :
                        ImputedFrom(r, Cardinality({d \in kept : d <= c}), c)

\* a column with a '?' whose other values are 1 and 2: the cell holds 3/2
C7_Witness ==
    /\ cell = "impute"
    /\ Done("impute")
    /\ \E r \in 1..Len(Loaded) :
          /\ Loaded[r][1] = QMark
          /\ Known(1) # {}
          /\ ns.imputed_x[r][1] = [num |-> 3, den |-> 2]

\* C8: train_test_split with test_size 0.33 splits the n rows into a training
\* part and a test part that are disjoint and together hold every row exactly
\* once; the test part has 33% of the rows, rounded up to a whole number, and
\* the training part the others; the four arrays are those rows of X and Y.
C8_SplitPartitions ==
    (cell = "split" /\ Done("split")) =>
        LET n     == Len(ns.X)
            train == split_idx.train
            test  == split_idx.test
        IN  /\ NoRepeat(train) /\ NoRepeat(test)
            /\ SetOf(train) \cap SetOf(test) = {}
            /\ SetOf(train) \union SetOf(test) = 1..n
            /\ 100 * Len(test) >= 33 * n
            /\ 100 * (Len(test) - 1) < 33 * n
            /\ Len(train) = n - Len(test)
            /\ Len(ns.X_train) = Len(train) /\ Len(ns.y_train) = Len(train)
            /\ Len(ns.X_test) = Len(test) /\ Len(ns.y_test) = Len(test)
            /\ \A k \in 1..Len(train) :
                  ns.X_train[k] = ns.X[train[k]] /\ ns.y_train[k] = ns.Y[train[k]]
            /\ \A k \in 1..Len(test) :
                  ns.X_test[k] = ns.X[test[k]] /\ ns.y_test[k] = ns.Y[test[k]]

\* four rows: 1.32 rows make a test part of two
C8_Witness ==
    /\ cell = "split"
    /\ Done("split")
    /\ Len(ns.X) = 4
    /\ Len(split_idx.test) = 2
    /\ Len(split_idx.train) = 2

\* the place of a statement in the order load, split/encode, fit, predict,
\* score, print (a round of cross_val_score fits, predicts and scores)
Phase(l) ==
    CASE l = "load" -> 1
      [] l \in {"slice", "sentinel", "astype", "impute", "onehot", "shape", "encode_y",
                "split", "cv"} -> 2
      [] l \in {"fit", "cross_val_score"} -> 3
      [] l = "predict" -> 4
      [] l = "score" -> 5
      [] OTHER -> 6

InPhaseOrder == \A i, j \in 1..Len(trace) : i < j => Phase(trace[i]) <= Phase(trace[j])

Loops == {"onehot", "cross_val_score"}

\* an accuracy line is out only once the score behind it was computed from
\* the predictions of a fitted model
AccuracyAfterScore ==
    (\E k \in 1..Len(out) : out[k].kind = "Accuracy") =>
        IF cell \in {"kfold", "stratified"}
        THEN /\ CountIn(trace, "cross_val_score") = n_folds
             /\ Len(ns.results) = n_folds
             /\ \A j \in 1..n_folds : ns.results[j] = cv_log[j].score
        ELSE /\ \E f, p, q \in 1..Len(trace) :
                   /\ f < p /\ p < q
                   /\ trace[f] = "fit" /\ trace[p] = "predict" /\ trace[q] = "score"
             /\ ns.model.fitted
             /\ Len(ns.predictions) = Len(ns.X_test)
             /\ ns.accuracy.num * Len(ns.predictions)
                   = CountEqual(ns.predictions, ns.y_test) * ns.accuracy.den
             /\ NearestHundredth(LastLine.a, ns.accuracy.num, ns.accuracy.den)

\* C9 as stated: every cell runs its steps in the order load, split/encode,
\* fit, predict, score, print as one linear pass, each step at most once, and
\* prints the accuracy only after the score was computed from predictions of
\* a fitted model.
C9_Original ==
    /\ InPhaseOrder
    /\ \A i, j \in 1..Len(trace) : i # j => trace[i] # trace[j]
    /\ AccuracyAfterScore

\* C9, amended: every cell runs its statements in the order load,
\* split/encode, fit, predict, score, print and prints the accuracy only after
\* the score was computed from predictions of a fitted model; a statement runs
\* at most once, except that the encoding loop of the one-hot cell runs once
\* for each feature column and cross_val_score fits and scores once for each
\* fold.
C9_OrderedPass ==
    /\ InPhaseOrder
    /\ \A i, j \in 1..Len(trace) :
          (i < j /\ trace[i] = trace[j]) =>
              /\ trace[i] \in Loops
              /\ \A m \in i..j : trace[m] = trace[i]
    /\ CountIn(trace, "onehot") <= NumFeatures
    /\ CountIn(trace, "cross_val_score") <= n_folds
    /\ pc = "done" =>
          /\ cell = "onehot" => CountIn(trace, "onehot") = NumFeatures
          /\ \A l \in Range(Program(cell)) : Done(l)
    /\ AccuracyAfterScore

\* the one-hot cell ran to its accuracy line, through its loop
C9_Witness ==
    /\ cell = "onehot"
    /\ pc = "done"
    /\ CountIn(trace, "onehot") = NumFeatures
    /\ LastLine.kind = "Accuracy"

NoAccuracyLine == \A k \in 1..Len(out) : out[k].kind # "Accuracy"

\* C10: a statement that fails ends the execution of its cell with an
\* unhandled fault: the failing statement changes nothing, no later statement
\* of that execution runs, no accuracy line is printed, and nothing resumes or
\* repeats the execution (the only step after a fault is the user starting a
\* new execution).
C10_FaultEndsCell ==
    /\ [](pc = "fault" => (NoAccuracyLine /\ ~Done("print") /\ ~Done("print_cv")))
    /\ [][/\ Raises => /\ pc' = "fault"
                       /\ UNCHANGED <<ns, out, trace, cell, iter, split_idx, cv_log>>
          /\ pc = "fault" => /\ runs' = runs + 1
                             /\ pc' = Program(cell')[1]
                             /\ trace' = <<>>
                             /\ out' = <<>>
                             /\ ns' = ns]_vars

\* the missing-data cell failed at the numeric conversion, after three statements
C10_Witness ==
    /\ cell = "missing"
    /\ pc = "fault"
    /\ trace = <<"load", "slice", "sentinel">>
    /\ HasCell(ns.X, {BadText})


\* the number of rows of class label in a fold
ClassCount(y, fold, label) == Cardinality({t \in 1..Len(fold) : y[fold[t]] = label})

\* C11: the test folds of StratifiedKFold(Y, n_folds) partition the rows and,
\* for every class, the number of its rows differs by at most one between any
\* two folds; every round of cross_val_score tests the fold of its turn and
\* trains on all the other rows.  (The folds are a function of the cv object,
\* which no later statement rebinds: they are examined as cross_val_score is
\* entered.)
C11_StratifiedFolds ==
    (cell = "stratified" /\ Done("cv")) =>
        LET n == Len(ns.Y)
        IN  /\ ns.kfold.y = ns.Y
            /\ (pc = "cross_val_score" /\ iter = 0) =>
                  /\ \A r \in 1..n :
                        Cardinality({j \in 1..n_folds :
                                        r \in SetOf(test_index(ns.kfold, j))}) = 1
                  /\ \A j \in 1..n_folds :
                        /\ NoRepeat(test_index(ns.kfold, j))
                        /\ SetOf(test_index(ns.kfold, j)) \subseteq 1..n
                  /\ \A label \in Range(ns.Y) : \A i, j \in 1..n_folds :
                        ClassCount(ns.Y, test_index(ns.kfold, i), label)
                           <= ClassCount(ns.Y, test_index(ns.kfold, j), label) + 1
            /\ Len(cv_log) <= n_folds
            /\ \A j \in 1..Len(cv_log) :
                  /\ cv_log[j].test = test_index(ns.kfold, j)
                  /\ NoRepeat(cv_log[j].train)
                  /\ SetOf(cv_log[j].train) = (1..n) \ SetOf(cv_log[j].test)

\* all the rounds ran over two classes of unequal size, the larger one with
\* more rows than folds, that alternate in the file
C11_Witness ==
    /\ cell = "stratified"
    /\ pc = "done"
    /\ Len(cv_log) = n_folds
    /\ Cardinality(Range(ns.Y)) = 2
    /\ \E label \in Range(ns.Y) : CountIn(ns.Y, label) > n_folds
    /\ \E r \in 1..(Len(ns.Y) - 1) : ns.Y[r] > ns.Y[r + 1]

\* C12: the snippet that label-encodes the feature columns leaves a table
\* encoded_x of the shape of X in which encoded_x[r][c] is the integer label
\* of X[r][c] among the sorted distinct values of column c.
C12_SnippetEncodesCellwise ==
    (cell = "doc" /\ pc = "done") =>
        /\ Len(ns.encoded_x) = Len(ns.X)
        /\ \A r \in 1..Len(ns.X) :
              /\ Len(ns.encoded_x[r]) = NumCols(ns.X)
              /\ \A c \in 1..NumCols(ns.X) :
                    ns.encoded_x[r][c]
                       = IndexOf(SortedSeq(Range(Column(ns.X, c))), ns.X[r][c]) - 1

\* the cells that evaluate on a train/test split
TrainTestCells == {"split", "iris", "onehot", "missing", "impute"}

\* the rows of the file the executing cell loaded
FileRows == files[FileOf(cell)].rows

\* the model was fit on the training rows and their labels, nothing else
FitOnTrainingRows ==
    Done("fit") =>
        /\ ns.model.x = Take(SplitFeatures, split_idx.train)
        /\ ns.model.y = Take(SplitLabels, split_idx.train)
        /\ Range(split_idx.train) \cap Range(split_idx.test) = {}

\* one prediction per test row, made from that row
PredictOnTestRows ==
    Done("predict") =>
        /\ Len(ns.predictions) = Len(split_idx.test)
        /\ ns.predictions
              = XGBClassifier_predict(oracle, ns.model, Take(SplitFeatures, split_idx.test))

\* prediction k is compared with the label of the k-th test row
ScoreOnTestRows ==
    Done("score") =>
        ns.accuracy.num * Len(split_idx.test)
           = ns.accuracy.den
             * Cardinality({k \in 1..Len(split_idx.test) :
                               ns.predictions[k] = SplitLabels[split_idx.test[k]]})

\* the tables that differ from rows in one value of one of the given rows
Variants(rows, changed) ==
    {[rows EXCEPT ![r][c] = v] :
        r \in Range(changed), c \in 1..(NumFeatures + 1), v \in 0..MaxValue}

\* whatever a test row holds, the training features are the same
FeaturesFreeOfTestRows ==
    \A other \in Variants(FileRows, split_idx.test) :
        Take(PreparedFeatures(cell, other), split_idx.train)
           = Take(PreparedFeatures(cell, FileRows), split_idx.train)

\* whatever a test row holds, the training labels are the same
LabelsFreeOfTestRows ==
    \A other \in Variants(FileRows, split_idx.test) :
        Take(PreparedLabels(cell, other), split_idx.train)
           = Take(PreparedLabels(cell, FileRows), split_idx.train)

\* C13 as stated: in the train/test cells no test row influences training and
\* no training row is scored; the model is fit only on the training rows,
\* predicts only the test rows, and the accuracy compares those predictions
\* with the labels of the same test rows in the same order.
C13_Original ==
    (cell \in TrainTestCells /\ Done("split")) =>
        /\ FitOnTrainingRows /\ PredictOnTestRows /\ ScoreOnTestRows
        /\ FeaturesFreeOfTestRows /\ LabelsFreeOfTestRows

\* C13: in the train/test cells the model is fit only on the training rows of
\* the prepared table, predicts only its test rows, and the accuracy compares
\* those predictions with the labels of the same test rows in the same order.
\* The prepared table is the cell's preparation of the whole file; where that
\* preparation works value by value (the pima, iris and missing-as-zero
\* features, the pima labels) no test row has any influence on the training
\* part.
C13_TrainTestSeparation ==
    (cell \in TrainTestCells /\ Done("split")) =>
        /\ FitOnTrainingRows /\ PredictOnTestRows /\ ScoreOnTestRows
        /\ SplitFeatures = PreparedFeatures(cell, FileRows)
        /\ SplitLabels = PreparedLabels(cell, FileRows)
        /\ cell \in {"split", "iris", "missing"} => FeaturesFreeOfTestRows
        /\ cell = "split" => LabelsFreeOfTestRows

\* a cell scored a model that was fit on some rows and tested on others
C13_Witness ==
    /\ cell \in TrainTestCells
    /\ pc = "done"
    /\ Len(split_idx.train) >= 2
    /\ Len(split_idx.test) >= 1
    /\ ns.model.x = Take(SplitFeatures, split_idx.train)
    /\ ns.model.x # SplitFeatures
    /\ Len(ns.predictions) = Len(split_idx.test)

\* the number of distinct values of feature column c
Distinct(X, c) == Cardinality(Range(Column(X, c)))

\* the number of one-hot columns of the features before feature i
RECURSIVE ColumnsBefore(_, _)
ColumnsBefore(X, i) ==
    IF i = 1 THEN 0 ELSE ColumnsBefore(X, i - 1) + Distinct(X, i - 1)

\* the "X shape" line the execution printed, if any
ShapeLines == {k \in 1..Len(out) : out[k].kind = "X shape"}

\* C14: after k iterations of the one-hot loop encoded_x has the rows of X and
\* one column per distinct value of each of the first k features, the block of
\* feature i before the block of feature j when i < j; after the loop that is
\* the sum over all the features, and it is the shape the cell prints.  The
\* first iteration sets encoded_x to its block whatever was bound before, and
\* every later one keeps the columns there are and appends its block.
C14_OneHotShape ==
    /\ [](
        (cell = "onehot" /\ Done("onehot")) =>
            LET k == CountIn(trace, "onehot")
            IN  /\ Len(ns.encoded_x) = Len(ns.X)
                /\ \A r \in 1..Len(ns.X) :
                      /\ Len(ns.encoded_x[r]) = ColumnsBefore(ns.X, k + 1)
                      /\ \A i \in 1..k : \A p \in 1..Distinct(ns.X, i) :
                            ns.encoded_x[r][ColumnsBefore(ns.X, i) + p]
                               = IF ns.X[r][i] = SortedSeq(Range(Column(ns.X, i)))[p]
                                 THEN 1 ELSE 0
                /\ Done("shape") =>
                      /\ k = NumFeatures
                      /\ \A l \in ShapeLines :
                            /\ out[l].a = Len(ns.X)
                            /\ out[l].b = ColumnsBefore(ns.X, NumFeatures + 1)
                      /\ ShapeLines # {})
    /\ [][(cell = "onehot" /\ pc = "onehot" /\ trace' = Append(trace, "onehot")) =>
             IF iter = 0
             THEN ns'.encoded_x = ns'.feature
             ELSE /\ Len(ns'.encoded_x) = Len(ns.encoded_x)
                  /\ \A r \in 1..Len(ns.encoded_x) :
                        /\ Len(ns'.encoded_x[r]) = Len(ns.encoded_x[r]) + Len(ns'.feature[r])
                        /\ SubSeq(ns'.encoded_x[r], 1, Len(ns.encoded_x[r]))
                              = ns.encoded_x[r]]_vars

\* the cell printed the shape of a table whose features have three and two
\* distinct values, in a second execution
C14_Witness ==
    /\ cell = "onehot"
    /\ Done("shape")
    /\ runs = 2
    /\ Distinct(ns.X, 1) = 3
    /\ Distinct(ns.X, 2) = 2
    /\ NumCols(ns.encoded_x) = ColumnsBefore(ns.X, NumFeatures + 1)
    /\ \E l \in ShapeLines : out[l].b = NumCols(ns.encoded_x)

\* the names the statements completed so far in this execution assigned
BoundInExecution == UNION {Binds(cell, trace[k]) : k \in 1..Len(trace)}

\* C15: a cell's result does not depend on what ran before it.  Whatever cells
\* ran earlier, in whatever order, an execution ends as it does in a fresh
\* kernel: with the same fault or none, after the same statements, having
\* printed the same lines; every name a statement reads was assigned by an
\* earlier statement of the same execution, and a statement assigns no name
\* but its own.
C15_CellsIndependent ==
    /\ []((cell \in Cells /\ pc \in {"done", "fault"}) =>
            /\ (pc = "fault") = (FreshFault(cell) # "none")
            /\ trace = FreshTrace(cell)
            /\ out = FreshOut(cell))
    /\ []((cell \in Cells /\ pc \in Range(Program(cell))) =>
            Reads(cell, pc) \subseteq BoundInExecution)
    /\ [][(cell \in Cells /\ trace' = Append(trace, pc)) =>
             /\ \A name \in (DOMAIN ns') \ Binds(cell, pc) :
                   name \in DOMAIN ns /\ ns'[name] = ns[name]
             /\ pc' # pc => Binds(cell, pc) \subseteq DOMAIN ns']_vars

\* a cell completed in a kernel in which another cell had left the names it
\* reads bound to other values
C15_Witness ==
    /\ runs = 2
    /\ cell = "missing"
    /\ pc = "done"
    /\ LastLine.kind = "Accuracy"
    /\ ns.dataset # files[FileOf("missing")].rows
    /\ "encoded_x" \in DOMAIN ns

\* the cells that label-encode the class column
EncodedCells == {"iris", "onehot", "missing", "impute"}

\* the integer the fitted encoder gives a class value
CodeOf(classes, value) == IndexOf(classes, value) - 1

\* C16: the label encoder is fit once, on the whole class column, before the
\* split; y_train and y_test hold the codes that one encoder gives the class
\* values of their rows, so a class value has the same integer in both, and
\* every class value of a test row is one of the encoder's classes.
C16_OneEncoding ==
    (cell \in EncodedCells /\ Done("split")) =>
        /\ CountIn(trace, "encode_y") = 1
        /\ IndexOf(trace, "encode_y") < IndexOf(trace, "split")
        /\ ns.label_encoder = SortedSeq(Range(ns.Y))
        /\ \A k \in 1..Len(split_idx.train) :
              ns.y_train[k] = CodeOf(ns.label_encoder, ns.Y[split_idx.train[k]])
        /\ \A k \in 1..Len(split_idx.test) :
              /\ ns.y_test[k] = CodeOf(ns.label_encoder, ns.Y[split_idx.test[k]])
              /\ ns.Y[split_idx.test[k]] \in Range(ns.label_encoder)
              /\ ns.y_test[k] \in 0..(Len(ns.label_encoder) - 1)
        /\ \A i \in 1..Len(split_idx.train), j \in 1..Len(split_idx.test) :
              (ns.Y[split_idx.train[i]] = ns.Y[split_idx.test[j]])
                 <=> (ns.y_train[i] = ns.y_test[j])

\* a test row's class is the class of no training row, and the split still
\* gave it the code of the encoder that was fit on all the rows
C16_Witness ==
    /\ cell \in {"iris", "onehot"}
    /\ Done("split")
    /\ \E j \in 1..Len(split_idx.test) :
          /\ \A i \in 1..Len(split_idx.train) :
                ns.Y[split_idx.train[i]] # ns.Y[split_idx.test[j]]
          /\ ns.y_test[j] = CodeOf(ns.label_encoder, ns.Y[split_idx.test[j]])
          /\ ns.y_test[j] # ns.Y[split_idx.test[j]]

\* the value of field f of record i as X holds it at this point of the cell
FieldInX(i, f) ==
    LET v == FileRows[i][f]
    IN  IF v = QMark /\ Done("sentinel")
        THEN (IF cell = "missing" THEN 0 ELSE NaN)
        ELSE v

\* row i of imputed_x is made of the fields of record i
RowImputedFromRecord(i) ==
    LET kept == {f \in 1..NumFeatures :
                    \E r \in 1..Len(FileRows) : FileRows[r][f] # QMark}
    IN  /\ Len(ns.imputed_x[i]) = Cardinality(kept)
        /\ \A f \in kept :
              FileRows[i][f] # QMark =>
                 LET q == ns.imputed_x[i][Cardinality({d \in kept : d <= f})]
                 IN  q.num = FileRows[i][f] * q.den

\* row i of encoded_x is made of the fields of record i: in the block of each
\* encoded feature the 1 marks the value record i has for it
RowEncodedFromRecord(i) ==
    LET X == Columns(FileRows, 1, NumFeatures)
    IN  \A f \in 1..CountIn(trace, "onehot") : \A p \in 1..Distinct(X, f) :
           (ns.encoded_x[i][ColumnsBefore(X, f) + p] = 1)
              <=> (FileRows[i][f] = SortedSeq(Range(Column(X, f)))[p])

\* the k-th row of a part of the split is, in features and in label, the
\* record at the k-th of the part's row indices
PartFromRecords(x_part, y_part, index) ==
    /\ Len(x_part) = Len(index)
    /\ Len(y_part) = Len(index)
    /\ \A k \in 1..Len(index) :
          /\ x_part[k] = SplitFeatures[index[k]]
          /\ y_part[k] = SplitLabels[index[k]]

\* C17: every table of a train/test cell has one row per record of the loaded
\* file, in the file's order: row i of X, of the imputed or one-hot encoded
\* features and entry i of Y and of the encoded labels are made from record i;
\* the split takes features and labels at the same row indices.
C17_RowPairing ==
    (cell \in TrainTestCells /\ Done("slice")) =>
        LET n == Len(FileRows)
        IN  /\ Len(ns.dataset) = n /\ Len(ns.X) = n /\ Len(ns.Y) = n
            /\ \A i \in 1..n :
                  /\ ns.Y[i] = FileRows[i][NumFeatures + 1]
                  /\ \A f \in 1..NumFeatures : ns.X[i][f] = FieldInX(i, f)
            /\ Done("impute") =>
                  /\ Len(ns.imputed_x) = n
                  /\ \A i \in 1..n : RowImputedFromRecord(i)
            /\ Done("onehot") =>
                  /\ Len(ns.encoded_x) = n
                  /\ \A i \in 1..n : RowEncodedFromRecord(i)
            /\ Done("encode_y") =>
                  /\ Len(ns.label_encoded_y) = n
                  /\ \A i \in 1..n :
                        ns.label_encoded_y[i]
                           = CodeOf(SortedSeq(Range(Column(FileRows, NumFeatures + 1))),
                                    FileRows[i][NumFeatures + 1])
            /\ Done("split") =>
                  /\ Len(SplitFeatures) = n
                  /\ Len(SplitLabels) = n
                  /\ PartFromRecords(ns.X_train, ns.y_train, split_idx.train)
                  /\ PartFromRecords(ns.X_test, ns.y_test, split_idx.test)

\* the imputation cell split a file with a missing value, and the shuffle put
\* a later record before an earlier one in the training part
C17_Witness ==
    /\ cell = "impute"
    /\ Done("split")
    /\ \E i \in 1..Len(FileRows) : \E f \in 1..NumFeatures : FileRows[i][f] = QMark
    /\ Len(split_idx.train) >= 2
    /\ split_idx.train[1] > split_idx.train[2]
    /\ Len(ns.y_train) = Len(ns.X_train)
    /\ ns.y_train[1] = ns.label_encoded_y[split_idx.train[1]]

=============================================================================
